---- MODULE Spec2Model ----
(***************************************************************************)
(* Students-portal REST API (reports.api): role permissions, role-scoped   *)
(* querysets, enrollment toggles, course reviews and the course roster.    *)
(* Each action below is one request handled by a viewset action, from the  *)
(* permission check to the response.                                       *)
(***************************************************************************)
EXTENDS Integers, Sequences, FiniteSets, TLC

VARIABLES
    enrolled,   \* Course.students M2M edges, as <<student id, course id>>
    grades,     \* Grade rows: [id, student, course, score]
    reviews,    \* CourseReview rows: [id, course, student, rating]
    resp,       \* the last request handled and its response
    inflight,   \* concurrent enroll/unenroll requests, one per worker
    start       \* the M2M edges when the concurrent requests were issued

vars == <<enrolled, grades, reviews, resp, inflight, start>>

(***************************************************************************)
(* Bounds of the model.                                                    *)
(***************************************************************************)
MaxGrades == 2
MaxReviews == 1

(***************************************************************************)
(* The records that exist: accounts with their Profile, Student rows and   *)
(* Course rows.  "anon" is the unauthenticated request.user.               *)
(***************************************************************************)
Anonymous == "anon"
Accounts == {"stu1", "stu2", "stu3", "lec1", "adm1"}
Principals == Accounts \cup {Anonymous}

\* Profile.role of each account
ProfileRole ==
    [a \in Accounts |->
        CASE a \in {"stu1", "stu2", "stu3"} -> "student"
          [] a = "lec1" -> "lecturer"
          [] OTHER -> "admin"]

\* Profile.name of each account
ProfileName ==
    [a \in Accounts |->
        CASE a = "lec1" -> "Dr One"
          [] a = "adm1" -> "Registrar"
          [] a = "stu1" -> "Stu One"
          [] a = "stu2" -> "Stu Two"
          [] OTHER -> "Stu Three"]

\* Student rows (by id) and Student.user; "stu3" has no Student row
Students == {1, 2}
StudentUser == [s \in Students |-> IF s = 1 THEN "stu1" ELSE "stu2"]

\* Course rows (by id) and Course.lecturer (free text)
Courses == {1, 2}
CourseLecturer == [c \in Courses |-> IF c = 1 THEN "Dr One" ELSE "Dr Two"]

\* primary keys and ids a request may carry, including ones of no row
StudentPks == Students \cup {9}
CoursePks == Courses \cup {9}
Scores == {40, 80}
Ratings == {0, 1, 5, 6}

(***************************************************************************)
(* permissions.py                                                          *)
(***************************************************************************)
IsAuthenticated(u) == u \in Accounts

HasProfile(u) == u \in DOMAIN ProfileRole

IsStudent(u) ==
    IsAuthenticated(u) /\ HasProfile(u) /\ ProfileRole[u] = "student"

IsAdmin(u) ==
    IsAuthenticated(u) /\ HasProfile(u) /\ ProfileRole[u] = "admin"

IsLecturerOrAdminAny(u) == IsAuthenticated(u) /\ HasProfile(u)

IsLecturerOrAdmin(u) ==
    IsAuthenticated(u) /\ HasProfile(u) /\ ProfileRole[u] \in {"lecturer", "admin"}

SafeMethods == {"GET", "HEAD", "OPTIONS"}

IsOwnerOrReadOnlyObjectAnyone(method, u, review) == TRUE

\* IsOwnerOrReadOnly.has_object_permission on a CourseReview row
IsOwnerOrReadOnlyObject(method, u, review) ==
    IF method \in SafeMethods
    THEN TRUE
    ELSE StudentUser[review.student] = u

\* has_permission of one permission class
HasPermission(class, u) ==
    CASE class = "IsAuthenticated" -> IsAuthenticated(u)
      [] class = "IsStudent" -> IsStudent(u)
      [] class = "IsAdmin" -> IsAdmin(u)
      [] class = "IsLecturerOrAdmin" -> IsLecturerOrAdmin(u)
      [] class = "IsOwnerOrReadOnly" -> TRUE

(***************************************************************************)
(* views.py: the actions each viewset routes and its get_permissions       *)
(***************************************************************************)
WriteActions == {"create", "update", "partial_update", "destroy"}
ModelActions == {"list", "retrieve"} \cup WriteActions

ViewActions ==
    [v \in {"student", "course", "grade", "review", "profile"} |->
        CASE v = "student" ->
                ModelActions \cup {"me", "enroll", "unenroll", "grades", "gpa"}
          [] v = "course" -> ModelActions \cup {"students", "reviews"}
          [] v = "grade" -> ModelActions
          [] v = "review" -> ModelActions
          [] OTHER -> {"list", "retrieve", "me"}]

Views == DOMAIN ViewActions

StudentGetPermissions(action) ==
    IF action \in {"list"} \cup WriteActions
    THEN {"IsLecturerOrAdmin"}
    ELSE {"IsAuthenticated"}

CourseGetPermissions(action) ==
    IF action \in WriteActions THEN {"IsLecturerOrAdmin"} ELSE {"IsAuthenticated"}

GradeGetPermissions(action) ==
    IF action \in WriteActions THEN {"IsLecturerOrAdmin"} ELSE {"IsAuthenticated"}

ReviewGetPermissionsOpen(action) ==
    IF action = "create" THEN {"IsStudent"} ELSE {"IsOwnerOrReadOnly"}

ReviewGetPermissions(action) ==
    IF action = "create"
    THEN {"IsStudent"}
    ELSE {"IsAuthenticated", "IsOwnerOrReadOnly"}

ProfileGetPermissions(action) ==
    IF action = "list" THEN {"IsAdmin"} ELSE {"IsAuthenticated"}

GetPermissions(view, action) ==
    CASE view = "student" -> StudentGetPermissions(action)
      [] view = "course" -> CourseGetPermissions(action)
      [] view = "grade" -> GradeGetPermissions(action)
      [] view = "review" -> ReviewGetPermissions(action)
      [] view = "profile" -> ProfileGetPermissions(action)

\* APIView.check_permissions: every class of get_permissions must pass
Permitted(view, action, u) ==
    \A class \in GetPermissions(view, action) : HasPermission(class, u)

\* the response of a request that fails check_permissions
Denied(u) ==
    IF IsAuthenticated(u)
    THEN [code |-> 403, detail |-> "You do not have permission to perform this action."]
    ELSE [code |-> 401, detail |-> "Authentication credentials were not provided."]

(***************************************************************************)
(* Responses                                                               *)
(***************************************************************************)
NoData == [course |-> 0, student |-> 0, rating |-> 0, score |-> 0]

Response(view, action, u, pk, data, out, rows) ==
    [view |-> view, action |-> action, user |-> u, pk |-> pk, data |-> data,
     code |-> out.code, detail |-> out.detail, rows |-> rows]

NotFound == [code |-> 404, detail |-> "Not found."]
Invalid == [code |-> 400, detail |-> "invalid"]
Passed == [code |-> 0, detail |-> "permitted"]

Init ==
    /\ enrolled = {}
    /\ grades = {}
    /\ reviews = {}
    /\ resp = Response("none", "none", "none", 0, NoData, Passed, <<>>)
    /\ inflight = <<>>
    /\ start = {}

(***************************************************************************)
(* The permission check that precedes every routed action.                 *)
(***************************************************************************)
CheckPermissions(view, action, u) ==
    /\ resp' = Response(view, action, u, 0, NoData,
                        IF Permitted(view, action, u) THEN Passed ELSE Denied(u),
                        <<>>)
    /\ UNCHANGED <<enrolled, grades, reviews, inflight, start>>

NextAccess ==
    \E view \in Views : \E action \in ViewActions[view] : \E u \in Principals :
        CheckPermissions(view, action, u)

SpecAccess == Init /\ [][NextAccess]_vars

\* C6: no routed action of any viewset lets an unauthenticated request past
\* its permission check; every one is answered 401.
NoAnonymousAccess ==
    resp.user = Anonymous => resp.code = 401

AnonymousRejected ==
    /\ resp.user = Anonymous
    /\ resp.view = "review"
    /\ resp.action = "partial_update"
    /\ resp.code = 401

\* C7: writes on Course and Grade and the Student list pass the permission
\* check only for a lecturer or admin profile, the Profile list only for an
\* admin profile.
LecturerOrAdminOnly(view, action) ==
    \/ view \in {"course", "grade"} /\ action \in WriteActions
    \/ view = "student" /\ action = "list"

RoleCapability ==
    resp.code = Passed.code /\ resp.view # "none" =>
        /\ LecturerOrAdminOnly(resp.view, resp.action) =>
              /\ resp.user \in Accounts
              /\ ProfileRole[resp.user] \in {"lecturer", "admin"}
        /\ resp.view = "profile" /\ resp.action = "list" =>
              /\ resp.user \in Accounts
              /\ ProfileRole[resp.user] = "admin"

LecturerWritesGrade ==
    /\ resp.view = "grade"
    /\ resp.action = "destroy"
    /\ resp.user = "lec1"
    /\ resp.code = Passed.code

(***************************************************************************)
(* StudentViewSet.enroll / unenroll                                        *)
(***************************************************************************)
\* the role gate at the top of enroll and unenroll
NotSelf(u, pk) ==
    HasProfile(u) /\ ProfileRole[u] # "student" /\ StudentUser[pk] # u

\* EnrollmentSerializer.is_valid
EnrollmentValid(cid) == cid \in Courses

IsEnrolledNever(pk, cid, edges) == FALSE

\* student in course.students.all()
IsEnrolled(pk, cid, edges) == <<pk, cid>> \in edges

AlreadyEnrolled == [code |-> 400, detail |-> "Already enrolled in this course"]
NotEnrolled == [code |-> 400, detail |-> "Not enrolled in this course"]
EnrollOnlySelf == [code |-> 403, detail |-> "You can only enroll yourself"]
UnenrollOnlySelf == [code |-> 403, detail |-> "You can only unenroll yourself"]
EnrollOk == [code |-> 200, detail |-> "Successfully enrolled"]
UnenrollOk == [code |-> 200, detail |-> "Successfully unenrolled"]

\* enroll up to and including the membership check (views.py 63-81)
EnrollOutcome(u, pk, cid, edges) ==
    IF ~Permitted("student", "enroll", u) THEN Denied(u)
    ELSE IF pk \notin Students THEN NotFound
    ELSE IF NotSelf(u, pk) THEN EnrollOnlySelf
    ELSE IF ~EnrollmentValid(cid) THEN Invalid
    ELSE IF IsEnrolled(pk, cid, edges) THEN AlreadyEnrolled
    ELSE EnrollOk

\* unenroll up to and including the membership check (views.py 93-111)
UnenrollOutcome(u, pk, cid, edges) ==
    IF ~Permitted("student", "unenroll", u) THEN Denied(u)
    ELSE IF pk \notin Students THEN NotFound
    ELSE IF NotSelf(u, pk) THEN UnenrollOnlySelf
    ELSE IF ~EnrollmentValid(cid) THEN Invalid
    ELSE IF ~IsEnrolled(pk, cid, edges) THEN NotEnrolled
    ELSE UnenrollOk

Enroll(u, pk, cid) ==
    LET out == EnrollOutcome(u, pk, cid, enrolled)
    IN  /\ enrolled' = IF out = EnrollOk THEN enrolled \cup {<<pk, cid>>} ELSE enrolled
        /\ resp' = Response("student", "enroll", u, pk,
                            [NoData EXCEPT !.course = cid], out, <<>>)
        /\ UNCHANGED <<grades, reviews, inflight, start>>

Unenroll(u, pk, cid) ==
    LET out == UnenrollOutcome(u, pk, cid, enrolled)
    IN  /\ enrolled' = IF out = UnenrollOk THEN enrolled \ {<<pk, cid>>} ELSE enrolled
        /\ resp' = Response("student", "unenroll", u, pk,
                            [NoData EXCEPT !.course = cid], out, <<>>)
        /\ UNCHANGED <<grades, reviews, inflight, start>>

NextEnroll ==
    \E u \in Principals : \E pk \in StudentPks : \E cid \in CoursePks :
        \/ Enroll(u, pk, cid)
        \/ Unenroll(u, pk, cid)

SpecEnroll == Init /\ [][NextEnroll]_vars

\* a request that got past authentication, lookup, the role gate and
\* validation, so that its answer came from the membership check
ReachedMembership(r) ==
    /\ r.view = "student"
    /\ r.action \in {"enroll", "unenroll"}
    /\ r.code \notin {401, 403, 404}
    /\ r.detail # Invalid.detail

\* C1: an enroll that reaches the membership check answers AlreadyEnrolled
\* when the edge exists and otherwise adds it and succeeds; an unenroll
\* answers NotEnrolled when the edge is missing and otherwise removes it and
\* succeeds; a principal's second consecutive enroll of a pair, after a
\* successful first, answers AlreadyEnrolled.
EnrollIdempotencyGuards ==
    /\ [][ReachedMembership(resp') /\ resp'.action = "enroll" =>
            LET e == <<resp'.pk, resp'.data.course>> IN
            IF e \in enrolled
            THEN resp'.detail = AlreadyEnrolled.detail /\ resp'.code = 400
                 /\ enrolled' = enrolled
            ELSE resp'.code = 200 /\ enrolled' = enrolled \cup {e}]_vars
    /\ [][ReachedMembership(resp') /\ resp'.action = "unenroll" =>
            LET e == <<resp'.pk, resp'.data.course>> IN
            IF e \notin enrolled
            THEN resp'.detail = NotEnrolled.detail /\ resp'.code = 400
                 /\ enrolled' = enrolled
            ELSE resp'.code = 200 /\ enrolled' = enrolled \ {e}]_vars
    /\ [][(/\ resp.action = "enroll" /\ resp.code = 200
            /\ resp'.action = "enroll"
            /\ resp'.user = resp.user /\ resp'.pk = resp.pk
            /\ resp'.data = resp.data) =>
            resp'.detail = AlreadyEnrolled.detail /\ resp'.code = 400]_vars

SecondEnrollRefused ==
    /\ resp.view = "student" /\ resp.action = "enroll"
    /\ resp.user = "stu1" /\ resp.pk = 1 /\ resp.data.course = 2
    /\ resp.detail = AlreadyEnrolled.detail
    /\ <<1, 2>> \in enrolled

\* C3: enroll and unenroll on Student S succeed only for S's own account or
\* a lecturer/admin, and a student-role principal aiming at another
\* student's record is answered 403 with the enrollment set unchanged.
EnrollOnlySelfOrPrivileged ==
    [][resp'.view = "student" /\ resp'.action \in {"enroll", "unenroll"}
       /\ resp'.pk \in Students =>
         /\ resp'.code = 200 =>
               \/ StudentUser[resp'.pk] = resp'.user
               \/ ProfileRole[resp'.user] \in {"lecturer", "admin"}
         /\ IsStudent(resp'.user) /\ StudentUser[resp'.pk] # resp'.user =>
               resp'.code = 403 /\ enrolled' = enrolled]_vars

(***************************************************************************)
(* Two requests served at once.  A request reads (get_object, the role     *)
(* gate, the serializer, the membership check) in one step and writes      *)
(* (students.add / students.remove) in a later one; nothing in enroll or   *)
(* unenroll holds a transaction or a lock across the two.                  *)
(***************************************************************************)
Workers == {1, 2}

Idle == [pc |-> "idle", action |-> "none", user |-> "none", pk |-> 0,
         course |-> 0, code |-> 0, detail |-> "none"]

InitRace ==
    /\ enrolled \in SUBSET (Students \X Courses)
    /\ start = enrolled
    /\ grades = {}
    /\ reviews = {}
    /\ resp = Response("none", "none", "none", 0, NoData, Passed, <<>>)
    /\ inflight = [w \in Workers |-> Idle]

\* views.py 63-81 / 93-111: everything before the write
CheckMembership(w, action, u, pk, cid) ==
    /\ inflight[w].pc = "idle"
    /\ LET out == IF action = "enroll"
                  THEN EnrollOutcome(u, pk, cid, enrolled)
                  ELSE UnenrollOutcome(u, pk, cid, enrolled)
       IN  inflight' = [inflight EXCEPT ![w] =
                [pc |-> IF out \in {EnrollOk, UnenrollOk} THEN "checked" ELSE "done",
                 action |-> action, user |-> u, pk |-> pk, course |-> cid,
                 code |-> out.code, detail |-> out.detail]]
    /\ UNCHANGED <<enrolled, grades, reviews, resp, start>>

\* views.py 83-87 / 113-117: students.add or students.remove, then 200
WriteMembership(w) ==
    /\ inflight[w].pc = "checked"
    /\ LET r == inflight[w]
           e == <<r.pk, r.course>>
       IN  enrolled' = IF r.action = "enroll"
                       THEN enrolled \cup {e}
                       ELSE enrolled \ {e}
    /\ inflight' = [inflight EXCEPT ![w].pc = "done"]
    /\ UNCHANGED <<grades, reviews, resp, start>>

NextRace ==
    \E w \in Workers :
        \/ \E action \in {"enroll", "unenroll"} : \E u \in Principals :
             \E pk \in StudentPks : \E cid \in CoursePks :
                CheckMembership(w, action, u, pk, cid)
        \/ WriteMembership(w)

SpecRace == InitRace /\ [][NextRace]_vars

\* C4: of two concurrent enrolls of one pair that was not enrolled exactly
\* one answers 200 and the other AlreadyEnrolled; of two concurrent unenrolls
\* of an enrolled pair exactly one answers 200 and the other NotEnrolled.
SameTarget(a, b) ==
    a.action = b.action /\ a.pk = b.pk /\ a.course = b.course

Answered(r) == r.pc = "done" /\ r.code \notin {401, 403, 404} /\ r.detail # Invalid.detail

EnrollmentRaceFree ==
    LET a == inflight[1]
        b == inflight[2]
    IN  Answered(a) /\ Answered(b) /\ SameTarget(a, b) =>
          /\ a.action = "enroll" /\ <<a.pk, a.course>> \notin start =>
                {a.detail, b.detail} = {EnrollOk.detail, AlreadyEnrolled.detail}
          /\ a.action = "unenroll" /\ <<a.pk, a.course>> \in start =>
                {a.detail, b.detail} = {UnenrollOk.detail, NotEnrolled.detail}

(***************************************************************************)
(* Querysets                                                               *)
(***************************************************************************)
\* Student.objects.get(user=u): the matching rows (none: DoesNotExist)
LinkedStudents(u) == {s \in Students : StudentUser[s] = u}

\* Course.objects.filter(lecturer=user.profile.name)
LecturerCourses(u) == {c \in Courses : CourseLecturer[c] = ProfileName[u]}

\* the smallest id not in use; row identity is opaque, so a freed id may
\* serve again
FreeId(rows, max) ==
    CHOOSE i \in 1..max :
        /\ i \notin {r.id : r \in rows}
        /\ \A j \in 1..max : j \notin {r.id : r \in rows} => i <= j

\* the rows of a queryset in primary-key order
RECURSIVE ById(_)
ById(rows) ==
    IF rows = {}
    THEN <<>>
    ELSE LET first == CHOOSE r \in rows : \A q \in rows : r.id <= q.id
         IN  <<first>> \o ById(rows \ {first})

GradeQuerysetAll(u, gs) == gs

\* GradeViewSet.get_queryset
GradeQueryset(u, gs) ==
    IF HasProfile(u)
    THEN IF ProfileRole[u] = "student"
         THEN IF LinkedStudents(u) = {}
              THEN {}
              ELSE {g \in gs : g.student \in LinkedStudents(u)}
         ELSE IF ProfileRole[u] = "lecturer"
              THEN {g \in gs : g.course \in LecturerCourses(u)}
              ELSE gs
    ELSE gs

\* DjangoFilterBackend over filterset_fields student, course (0: not given)
GradeFilter(gs, fstudent, fcourse) ==
    {g \in gs : /\ fstudent # 0 => g.student = fstudent
                /\ fcourse # 0 => g.course = fcourse}

(***************************************************************************)
(* GradeViewSet                                                            *)
(***************************************************************************)
Created == [code |-> 201, detail |-> "created"]
Ok == [code |-> 200, detail |-> "ok"]
Deleted == [code |-> 204, detail |-> "deleted"]

GradeCreate(u, sid, cid, score) ==
    LET data == [NoData EXCEPT !.student = sid, !.course = cid, !.score = score]
        out ==
            IF ~Permitted("grade", "create", u) THEN Denied(u)
            ELSE IF sid \notin Students \/ cid \notin Courses THEN Invalid
            ELSE Created
    IN  /\ out = Created => Cardinality(grades) < MaxGrades
        /\ IF out = Created
           THEN LET id == FreeId(grades, MaxGrades)
                IN  /\ grades' = grades \cup
                          {[id |-> id, student |-> sid, course |-> cid, score |-> score]}
                    /\ resp' = Response("grade", "create", u, id, data, out, <<>>)
           ELSE /\ grades' = grades
                /\ resp' = Response("grade", "create", u, 0, data, out, <<>>)
        /\ UNCHANGED <<enrolled, reviews, inflight, start>>

GradeDestroy(u, gid) ==
    LET found == {g \in GradeQueryset(u, grades) : g.id = gid}
        out ==
            IF ~Permitted("grade", "destroy", u) THEN Denied(u)
            ELSE IF found = {} THEN NotFound
            ELSE Deleted
    IN  /\ grades' = IF out = Deleted THEN grades \ found ELSE grades
        /\ resp' = Response("grade", "destroy", u, gid, NoData, out, <<>>)
        /\ UNCHANGED <<enrolled, reviews, inflight, start>>

GradeList(u, fstudent, fcourse) ==
    LET data == [NoData EXCEPT !.student = fstudent, !.course = fcourse]
    IN  /\ resp' =
              IF ~Permitted("grade", "list", u)
              THEN Response("grade", "list", u, 0, data, Denied(u), <<>>)
              ELSE Response("grade", "list", u, 0, data, Ok,
                            ById(GradeFilter(GradeQueryset(u, grades), fstudent, fcourse)))
        /\ UNCHANGED <<enrolled, grades, reviews, inflight, start>>

NextGrades ==
    \/ \E u \in Principals : \E sid \in Students : \E cid \in CoursePks :
         \E score \in Scores : GradeCreate(u, sid, cid, score)
    \/ \E u \in Principals : \E gid \in 1..MaxGrades : GradeDestroy(u, gid)
    \/ \E u \in Principals : \E fstudent \in {0} \cup Students :
         \E fcourse \in {0} \cup Courses : GradeList(u, fstudent, fcourse)

SpecGrades == Init /\ [][NextGrades]_vars

Rows(r) == {r.rows[i] : i \in DOMAIN r.rows}

\* C2: every row a student-role principal gets from the grade list is a
\* grade of the Student linked to that principal.
StudentSeesOwnGradesOnly ==
    resp.view = "grade" /\ resp.action = "list" /\ IsStudent(resp.user) =>
        \A g \in Rows(resp) : g.student \in LinkedStudents(resp.user)

StudentListsAmongOthers ==
    /\ resp.view = "grade" /\ resp.action = "list" /\ resp.user = "stu1"
    /\ resp.data.student = 0
    /\ Len(resp.rows) = 1
    /\ \E g \in grades : g.student = 2 /\ g.course = resp.rows[1].course

(***************************************************************************)
(* CourseViewSet.students                                                  *)
(***************************************************************************)
\* StudentSerializer row of a Student
StudentRow(s) == [id |-> s, user |-> StudentUser[s]]

DictValuesKeepAll(seq) == seq

\* list({x.id: x for x in seq}.values()): one entry per id, in the order
\* the ids first occur
RECURSIVE DictValues(_)
DictValues(seq) ==
    IF seq = <<>>
    THEN <<>>
    ELSE LET n == Len(seq)
             init == DictValues(SubSeq(seq, 1, n - 1))
         IN  IF \E i \in DOMAIN init : init[i].id = seq[n].id
             THEN init
             ELSE Append(init, seq[n])

\* [grade.student for grade in Grade.objects.filter(course=course)]
RECURSIVE GradeStudents(_)
GradeStudents(gseq) ==
    IF gseq = <<>>
    THEN <<>>
    ELSE <<StudentRow(Head(gseq).student)>> \o GradeStudents(Tail(gseq))

CourseStudents(u, cid) ==
    LET data == [NoData EXCEPT !.course = cid]
        students_from_m2m ==
            ById({StudentRow(s) : s \in {t \in Students : <<t, cid>> \in enrolled}})
        students_from_grades ==
            GradeStudents(ById({g \in grades : g.course = cid}))
    IN  /\ resp' =
              IF ~Permitted("course", "students", u)
              THEN Response("course", "students", u, cid, data, Denied(u), <<>>)
              ELSE IF cid \notin Courses
              THEN Response("course", "students", u, cid, data, NotFound, <<>>)
              ELSE Response("course", "students", u, cid, data, Ok,
                            DictValues(students_from_m2m \o students_from_grades))
        /\ UNCHANGED <<enrolled, grades, reviews, inflight, start>>

\* any store of M2M edges and at most MaxGrades Grade rows
InitRoster ==
    /\ enrolled \in SUBSET (Students \X Courses)
    /\ \E f \in [1..MaxGrades -> (Students \X Courses \X Scores) \cup {<<>>}] :
          grades = {[id |-> i, student |-> f[i][1], course |-> f[i][2],
                     score |-> f[i][3]] : i \in {j \in 1..MaxGrades : f[j] # <<>>}}
    /\ reviews = {}
    /\ resp = Response("none", "none", "none", 0, NoData, Passed, <<>>)
    /\ inflight = <<>>
    /\ start = {}

NextRoster ==
    \E u \in Principals : \E cid \in CoursePks : CourseStudents(u, cid)

SpecRoster == InitRoster /\ [][NextRoster]_vars

\* C10: the students of a course are the students enrolled in it together
\* with the students graded in it, each id once.
RosterIsUnion ==
    resp.view = "course" /\ resp.action = "students" /\ resp.code = 200 =>
        /\ {r.id : r \in Rows(resp)} =
              {s \in Students : <<s, resp.pk>> \in enrolled}
                \cup {g.student : g \in {h \in grades : h.course = resp.pk}}
        /\ \A i, j \in DOMAIN resp.rows :
              resp.rows[i].id = resp.rows[j].id => i = j

RosterEnrolledAndGraded ==
    /\ resp.view = "course" /\ resp.action = "students" /\ resp.code = 200
    /\ <<1, resp.pk>> \in enrolled
    /\ <<2, resp.pk>> \notin enrolled
    /\ \E g \in grades : g.course = resp.pk /\ g.student = 1
    /\ \E g \in grades : g.course = resp.pk /\ g.student = 2
    /\ Len(resp.rows) = 2

(***************************************************************************)
(* CourseReviewViewSet and CourseViewSet.reviews                           *)
(***************************************************************************)
\* CourseReviewViewSet.get_queryset
ReviewQueryset(u, rs) ==
    IF HasProfile(u)
    THEN IF ProfileRole[u] = "student"
         THEN rs
         ELSE IF ProfileRole[u] = "lecturer"
              THEN {r \in rs : r.course \in LecturerCourses(u)}
              ELSE rs
    ELSE rs

\* DjangoFilterBackend over the filterset field course (0: not given); the
\* student and rating filters narrow the rows the same way
ReviewFilter(rs, fcourse) == {r \in rs : fcourse # 0 => r.course = fcourse}

ValidateRatingFromZero(value) == ~(value < 0 \/ value > 5)

\* CourseReviewSerializer.validate_rating
ValidateRating(value) == ~(value < 1 \/ value > 5)

\* CourseReviewSerializer.is_valid on course, student and rating
ReviewValid(data) ==
    /\ data.course \in Courses
    /\ data.student \in Students
    /\ ValidateRating(data.rating)

PerformCreateStudentFromClient(u, data) == data.student

\* perform_create: the student handed to serializer.save, which overrides
\* the validated student of the request
PerformCreateStudent(u, data) == CHOOSE s \in LinkedStudents(u) : TRUE

ServerError == [code |-> 500, detail |-> "Student.DoesNotExist"]

ReviewCreate(u, cid, sid, rating) ==
    LET data == [NoData EXCEPT !.course = cid, !.student = sid, !.rating = rating]
        out ==
            IF ~Permitted("review", "create", u) THEN Denied(u)
            ELSE IF ~ReviewValid(data) THEN Invalid
            ELSE IF LinkedStudents(u) = {} THEN ServerError
            ELSE Created
    IN  /\ out = Created => Cardinality(reviews) < MaxReviews
        /\ IF out = Created
           THEN LET id == FreeId(reviews, MaxReviews)
                IN  /\ reviews' = reviews \cup
                          {[id |-> id, course |-> cid,
                            student |-> PerformCreateStudent(u, data),
                            rating |-> rating]}
                    /\ resp' = Response("review", "create", u, id, data, out, <<>>)
           ELSE /\ reviews' = reviews
                /\ resp' = Response("review", "create", u, 0, data, out, <<>>)
        /\ UNCHANGED <<enrolled, grades, inflight, start>>

\* get_object of CourseReviewViewSet followed by check_object_permissions
ReviewObjectOutcome(method, u, rid, rs) ==
    LET found == {r \in ReviewQueryset(u, rs) : r.id = rid}
    IN  IF found = {} THEN NotFound
        ELSE IF ~IsOwnerOrReadOnlyObject(method, u, CHOOSE r \in found : TRUE)
        THEN Denied(u)
        ELSE Ok

ReviewUpdate(u, rid, cid, sid, rating) ==
    LET data == [NoData EXCEPT !.course = cid, !.student = sid, !.rating = rating]
        out ==
            IF ~Permitted("review", "update", u) THEN Denied(u)
            ELSE IF ReviewObjectOutcome("PUT", u, rid, reviews) # Ok
            THEN ReviewObjectOutcome("PUT", u, rid, reviews)
            ELSE IF ~ReviewValid(data) THEN Invalid
            ELSE Ok
    IN  /\ reviews' =
              IF out = Ok
              THEN {r \in reviews : r.id # rid} \cup
                     {[id |-> rid, course |-> cid, student |-> sid, rating |-> rating]}
              ELSE reviews
        /\ resp' = Response("review", "update", u, rid, data, out, <<>>)
        /\ UNCHANGED <<enrolled, grades, inflight, start>>

ReviewDestroy(u, rid) ==
    LET out ==
            IF ~Permitted("review", "destroy", u) THEN Denied(u)
            ELSE IF ReviewObjectOutcome("DELETE", u, rid, reviews) # Ok
            THEN ReviewObjectOutcome("DELETE", u, rid, reviews)
            ELSE Deleted
    IN  /\ reviews' = IF out = Deleted THEN {r \in reviews : r.id # rid} ELSE reviews
        /\ resp' = Response("review", "destroy", u, rid, NoData, out, <<>>)
        /\ UNCHANGED <<enrolled, grades, inflight, start>>

ReviewRetrieve(u, rid) ==
    LET out ==
            IF ~Permitted("review", "retrieve", u) THEN Denied(u)
            ELSE ReviewObjectOutcome("GET", u, rid, reviews)
    IN  /\ resp' = Response("review", "retrieve", u, rid, NoData, out,
                            IF out = Ok THEN ById({r \in reviews : r.id = rid}) ELSE <<>>)
        /\ UNCHANGED <<enrolled, grades, reviews, inflight, start>>

ReviewList(u, fcourse) ==
    LET data == [NoData EXCEPT !.course = fcourse]
    IN  /\ resp' =
              IF ~Permitted("review", "list", u)
              THEN Response("review", "list", u, 0, data, Denied(u), <<>>)
              ELSE Response("review", "list", u, 0, data, Ok,
                            ById(ReviewFilter(ReviewQueryset(u, reviews), fcourse)))
        /\ UNCHANGED <<enrolled, grades, reviews, inflight, start>>

\* CourseViewSet.reviews
CourseReviews(u, cid) ==
    LET data == [NoData EXCEPT !.course = cid]
    IN  /\ resp' =
              IF ~Permitted("course", "reviews", u)
              THEN Response("course", "reviews", u, cid, data, Denied(u), <<>>)
              ELSE IF cid \notin Courses
              THEN Response("course", "reviews", u, cid, data, NotFound, <<>>)
              ELSE Response("course", "reviews", u, cid, data, Ok,
                            ById({r \in reviews : r.course = cid}))
        /\ UNCHANGED <<enrolled, grades, reviews, inflight, start>>

NextReviews ==
    \/ \E u \in Principals : \E cid \in CoursePks : \E sid \in Students :
         \E rating \in Ratings : ReviewCreate(u, cid, sid, rating)
    \/ \E u \in Principals : \E rid \in 1..MaxReviews : \E cid \in Courses :
         \E sid \in Students : \E rating \in Ratings :
            ReviewUpdate(u, rid, cid, sid, rating)
    \/ \E u \in Principals : \E rid \in 1..MaxReviews : ReviewDestroy(u, rid)
    \/ \E u \in Principals : \E rid \in 1..MaxReviews : ReviewRetrieve(u, rid)
    \/ \E u \in Principals : \E fcourse \in {0} \cup Courses : ReviewList(u, fcourse)
    \/ \E u \in Principals : \E cid \in CoursePks : CourseReviews(u, cid)

SpecReviews == Init /\ [][NextReviews]_vars

\* C5: every row a lecturer gets from the grade list, the review list or a
\* course's reviews is a row of a course whose lecturer field is the
\* lecturer's Profile name; an admin's unfiltered list is every row.
ListingOfRows(r) ==
    \/ r.view \in {"grade", "review"} /\ r.action = "list"
    \/ r.view = "course" /\ r.action = "reviews"

LecturerSeesOwnCoursesOnly ==
    ListingOfRows(resp) /\ resp.code = 200 =>
        /\ resp.user \in Accounts /\ ProfileRole[resp.user] = "lecturer" =>
              \A row \in Rows(resp) :
                  CourseLecturer[row.course] = ProfileName[resp.user]
        /\ IsAdmin(resp.user) /\ resp.view = "review" /\ resp.data = NoData =>
              Rows(resp) = reviews

\* C8: a review is created only for a student-role principal, and the row
\* stored has the Student linked to that principal, whatever student the
\* request named.
ReviewStudentServerAssigned ==
    [][resp'.view = "review" /\ resp'.action = "create" /\ resp'.code = 201 =>
         /\ IsStudent(resp'.user)
         /\ \E r \in reviews' :
               /\ r.id = resp'.pk
               /\ r \notin reviews
               /\ r.student \in LinkedStudents(resp'.user)]_vars

ReviewCreatedForOther ==
    /\ resp.view = "review" /\ resp.action = "create" /\ resp.code = 201
    /\ resp.user = "stu1"
    /\ resp.data.student = 2
    /\ \E r \in reviews : r.id = resp.pk /\ r.student = 1

\* C9: an update or delete of a fetched review goes through only for the
\* account of the review's student and is answered 403 for anyone else; a
\* retrieve or list by an authenticated principal is never answered 403.
ReviewOwnerWrites ==
    [][resp'.view = "review" /\ resp'.user \in Accounts =>
         /\ resp'.action \in {"update", "partial_update", "destroy"} =>
               \A r \in ReviewQueryset(resp'.user, reviews) :
                   r.id = resp'.pk =>
                       IF StudentUser[r.student] = resp'.user
                       THEN resp'.code # 403
                       ELSE resp'.code = 403 /\ reviews' = reviews
         /\ resp'.action \in {"list", "retrieve"} => resp'.code # 403]_vars

ReviewWriteByOtherRefused ==
    /\ resp.view = "review" /\ resp.action = "destroy" /\ resp.code = 403
    /\ resp.user = "adm1"
    /\ \E r \in reviews : r.id = resp.pk /\ r.student = 1

\* C13: a review create by a student with a linked Student, naming
\* existing rows, is answered 201 exactly when 1 <= rating <= 5 and 400
\* otherwise; a create that is not answered 201 leaves the reviews unchanged.
RatingRangeChecked ==
    [][resp'.view = "review" /\ resp'.action = "create" =>
         /\ (/\ IsStudent(resp'.user)
             /\ LinkedStudents(resp'.user) # {}
             /\ resp'.data.course \in Courses
             /\ resp'.data.student \in Students) =>
               IF 1 <= resp'.data.rating /\ resp'.data.rating <= 5
               THEN resp'.code = 201
               ELSE resp'.code = 400
         /\ resp'.code # 201 => reviews' = reviews]_vars

RatingZeroRefused ==
    /\ resp.view = "review" /\ resp.action = "create"
    /\ resp.user = "stu1"
    /\ resp.data.course = 1
    /\ resp.data.rating = 0
    /\ resp.code = 400
    /\ reviews = {}

\* C15: a created review belongs to the Student linked to the principal who
\* created it, and no later request changes the student of a stored review.
ReviewOwnershipFixed ==
    [][/\ \A r \in reviews' :
            (\A q \in reviews : q.id # r.id) =>
                r.student \in LinkedStudents(resp'.user)
       /\ \A q \in reviews : \A r \in reviews' :
            q.id = r.id => r.student = q.student]_vars

(***************************************************************************)
(* StudentViewSet.retrieve / me / gpa and StudentDetailSerializer          *)
(***************************************************************************)
\* Grade.np_status, derived by the Grade model from the score: "NP" when the
\* score meets the pass mark
NpStatus(score) == IF score >= 50 THEN "NP" ELSE "PP"

\* GradeSerializer row of a Grade
GradeRow(g) ==
    [id |-> g.id, student |-> g.student, course |-> g.course, score |-> g.score,
     np_status |-> NpStatus(g.score)]

RECURSIVE GradeRows(_)
GradeRows(gseq) ==
    IF gseq = <<>> THEN <<>> ELSE <<GradeRow(Head(gseq))>> \o GradeRows(Tail(gseq))

RECURSIVE AnyNormal(_)
AnyNormal(gseq) ==
    IF gseq = <<>>
    THEN FALSE
    ELSE IF NpStatus(Head(gseq).score) = "NP" THEN TRUE ELSE AnyNormal(Tail(gseq))

\* all(grade.np_status == "NP" for grade in grades), left to right, stopping
\* at the first grade that is not "NP"
RECURSIVE AllNormal(_)
AllNormal(gseq) ==
    IF gseq = <<>>
    THEN TRUE
    ELSE IF NpStatus(Head(gseq).score) # "NP" THEN FALSE ELSE AllNormal(Tail(gseq))

\* StudentDetailSerializer.get_semester_remark over the student's grades
SemesterRemark(gseq) ==
    IF gseq = <<>> THEN "No grades yet"
    ELSE IF AllNormal(gseq) THEN "Normal Progress"
    ELSE "Attention Needed"

\* StudentDetailSerializer row of a Student; gpa and cgpa come from
\* reports.utils and are left out
StudentDetail(s) ==
    LET mine == ById({g \in grades : g.student = s})
    IN  [id |-> s, user |-> StudentUser[s],
         enrolled_courses |-> {c \in Courses : <<s, c>> \in enrolled},
         grades |-> GradeRows(mine),
         semester_remark |-> SemesterRemark(mine)]

StudentRetrieve(u, pk) ==
    /\ resp' =
          IF ~Permitted("student", "retrieve", u)
          THEN Response("student", "retrieve", u, pk, NoData, Denied(u), <<>>)
          ELSE IF pk \notin Students
          THEN Response("student", "retrieve", u, pk, NoData, NotFound, <<>>)
          ELSE Response("student", "retrieve", u, pk, NoData, Ok, <<StudentDetail(pk)>>)
    /\ UNCHANGED <<enrolled, grades, reviews, inflight, start>>

NoStudentProfile == [code |-> 404, detail |-> "Student profile not found"]

\* StudentViewSet.me
Me(u) ==
    /\ resp' =
          IF ~Permitted("student", "me", u)
          THEN Response("student", "me", u, 0, NoData, Denied(u), <<>>)
          ELSE IF LinkedStudents(u) = {}
          THEN Response("student", "me", u, 0, NoData, NoStudentProfile, <<>>)
          ELSE Response("student", "me", u, 0, NoData, Ok,
                        <<StudentDetail(CHOOSE s \in LinkedStudents(u) : TRUE)>>)
    /\ UNCHANGED <<enrolled, grades, reviews, inflight, start>>

\* StudentViewSet.gpa; the row stands for {student_id, student_name, gpa, cgpa}
Gpa(u, pk) ==
    /\ resp' =
          IF ~Permitted("student", "gpa", u)
          THEN Response("student", "gpa", u, pk, NoData, Denied(u), <<>>)
          ELSE IF pk \notin Students
          THEN Response("student", "gpa", u, pk, NoData, NotFound, <<>>)
          ELSE Response("student", "gpa", u, pk, NoData, Ok, <<[student_id |-> pk]>>)
    /\ UNCHANGED <<enrolled, grades, reviews, inflight, start>>

NextStudent ==
    \/ \E u \in Principals : \E pk \in StudentPks : StudentRetrieve(u, pk)
    \/ \E u \in Principals : Me(u)
    \/ \E u \in Principals : \E pk \in StudentPks : Gpa(u, pk)

SpecStudent == InitRoster /\ [][NextStudent]_vars

\* C11: the gpa of Student S is answered only to S's own account or to a
\* lecturer or admin; a student-role principal linked to another Student
\* (or to none) never gets it.
GpaSelfOrPrivileged ==
    resp.view = "student" /\ resp.action = "gpa" /\ resp.code = 200 =>
        \/ StudentUser[resp.pk] = resp.user
        \/ ProfileRole[resp.user] \in {"lecturer", "admin"}

\* the orders in which a set of rows can be iterated
Orders(rows) ==
    {f \in [1..Cardinality(rows) -> rows] :
        \A i, j \in 1..Cardinality(rows) : f[i] = f[j] => i = j}

\* C14: the semester remark of a student is "No grades yet" with no grade,
\* "Normal Progress" when there is a grade and every grade is "NP", and
\* "Attention Needed" when some grade is not "NP"; the same for every order
\* of the grades.
StandingAllOrNothing ==
    resp.view = "student" /\ resp.action \in {"retrieve", "me"} /\ resp.code = 200 =>
        LET row == resp.rows[1]
            mine == {g \in grades : g.student = row.id}
        IN  /\ row.semester_remark =
                  IF mine = {} THEN "No grades yet"
                  ELSE IF \A g \in mine : NpStatus(g.score) = "NP"
                       THEN "Normal Progress"
                       ELSE "Attention Needed"
            /\ \A order \in Orders(mine) :
                  SemesterRemark(order) = row.semester_remark

StandingMixedGrades ==
    /\ resp.view = "student" /\ resp.action = "me" /\ resp.code = 200
    /\ resp.user = "stu2"
    /\ Len(resp.rows[1].grades) = 2
    /\ resp.rows[1].grades[1].np_status = "NP"
    /\ resp.rows[1].grades[2].np_status # "NP"
    /\ resp.rows[1].semester_remark = "Attention Needed"

(***************************************************************************)
(* The self-scoped operations: a principal's own student profile, a review *)
(* written as oneself, one's own grades.                                   *)
(***************************************************************************)
NextSelf ==
    \/ \E u \in Principals : Me(u)
    \/ \E u \in Principals : \E cid \in CoursePks : \E sid \in Students :
         \E rating \in Ratings : ReviewCreate(u, cid, sid, rating)
    \/ \E u \in Principals : \E fstudent \in {0} \cup Students :
         \E fcourse \in {0} \cup Courses : GradeList(u, fstudent, fcourse)

SpecSelf == Init /\ [][NextSelf]_vars

SelfScoped(r) ==
    \/ r.view = "student" /\ r.action = "me"
    \/ r.view = "review" /\ r.action = "create" /\ ReviewValid(r.data)
    \/ r.view = "grade" /\ r.action = "list"

\* C12: a student-role principal with no linked Student gets the 404
\* no-profile answer from me, from a well-formed review create and from the
\* grade list: never 403, never an unhandled exception, never a success.
NoProfileIsNotFound ==
    IsStudent(resp.user) /\ LinkedStudents(resp.user) = {} /\ SelfScoped(resp) =>
        resp.code = 404

(***************************************************************************)
(* Requests served one at a time, over every viewset.                      *)
(***************************************************************************)
Next ==
    \/ NextAccess
    \/ NextEnroll
    \/ NextGrades
    \/ NextRoster
    \/ NextReviews
    \/ NextStudent

Spec == Init /\ [][Next]_vars

====
